---- MODULE Spec2Model ----
(***************************************************************************)
(* A model of the flashcard study tool: CSV ingestion (UploadFlashcards),  *)
(* the App shell that owns the deck and a pending snapshot, and the study  *)
(* session with its snapshot export / import (StudyFlashcards).            *)
(*                                                                         *)
(* JavaScript strings are modelled as sequences of one-character strings,  *)
(* so that trimming, splitting, prefix tests and both string orders used   *)
(* by the code (UTF-16 code units, and localeCompare with sensitivity      *)
(* "base") are computed and not assumed.                                   *)
(***************************************************************************)
EXTENDS Integers, Sequences, FiniteSets, TLC

(***************************************************************************)
(* Characters                                                              *)
(***************************************************************************)
Upper == <<"A","B","C","D","E","F","G","H","I","J","K","L","M",
           "N","O","P","Q","R","S","T","U","V","W","X","Y","Z">>
Lower == <<"a","b","c","d","e","f","g","h","i","j","k","l","m",
           "n","o","p","q","r","s","t","u","v","w","x","y","z">>
Digits == <<"0","1","2","3","4","5","6","7","8","9">>

Range(s) == { s[k] : k \in 1..Len(s) }

UpperSet == Range(Upper)

LowerSet == Range(Lower)

DigitSet == Range(Digits)

IndexOf(s, c) == CHOOSE k \in 1..Len(s) : s[k] = c

\* String.prototype.toLowerCase, one character
ToLowerChar(c) == IF c \in UpperSet THEN Lower[IndexOf(Upper, c)] ELSE c

ToLowerCase(s) == [k \in 1..Len(s) |-> ToLowerChar(s[k])]

\* The UTF-16 code unit of a character (the order of Array.prototype.sort
\* without a comparator, and of < on strings).
CodeUnit(c) ==
    IF c \in UpperSet THEN 64 + IndexOf(Upper, c)
    ELSE IF c \in LowerSet THEN 96 + IndexOf(Lower, c)
    ELSE IF c \in DigitSet THEN 47 + IndexOf(Digits, c)
    ELSE CASE c = "\t" -> 9
           [] c = "\n" -> 10
           [] c = "\r" -> 13
           [] c = " "  -> 32
           [] c = "\"" -> 34
           [] c = ","  -> 44
           [] c = "-"  -> 45
           [] c = "."  -> 46
           [] c = "/"  -> 47
           [] c = ":"  -> 58
           [] c = "_"  -> 95

\* The primary collation weight of a character, as used by
\* localeCompare(_, undefined, {sensitivity: "base"}): letters compare
\* without regard to case, after digits, which come after punctuation
\* (root collation order: white space, _ - , : . " /, digits, letters).
BaseWeight(c) ==
    IF c \in UpperSet THEN 200 + IndexOf(Upper, c)
    ELSE IF c \in LowerSet THEN 200 + IndexOf(Lower, c)
    ELSE IF c \in DigitSet THEN 100 + IndexOf(Digits, c)
    ELSE CASE c = "\t" -> 1
           [] c = "\n" -> 2
           [] c = "\r" -> 3
           [] c = " "  -> 4
           [] c = "_"  -> 5
           [] c = "-"  -> 6
           [] c = ","  -> 7
           [] c = ":"  -> 8
           [] c = "."  -> 9
           [] c = "\"" -> 10
           [] c = "/"  -> 11

\* The characters of file names and CSV text, and their code units and
\* weights tabulated.
Characters ==
    UpperSet \cup LowerSet \cup DigitSet
        \cup {"\t", "\n", "\r", " ", "\"", ",", "-", ".", "/", ":", "_"}

CodeUnits == [c \in Characters |-> CodeUnit(c)]

BaseWeights == [c \in Characters |-> BaseWeight(c)]

\* Lexicographic three-way comparison of two sequences of weights; a proper
\* prefix comes first.
RECURSIVE CompareFrom(_, _, _)
CompareFrom(a, b, k) ==
    IF k > Len(a) /\ k > Len(b) THEN 0
    ELSE IF k > Len(a) THEN -1
    ELSE IF k > Len(b) THEN 1
    ELSE IF a[k] < b[k] THEN -1
    ELSE IF a[k] > b[k] THEN 1
    ELSE CompareFrom(a, b, k + 1)

\* b.localeCompare(a, ...): the comparison with its arguments exchanged.
localeCompareDescending(a, b) ==
    CompareFrom([k \in 1..Len(b) |-> BaseWeights[b[k]]],
                [k \in 1..Len(a) |-> BaseWeights[a[k]]], 1)

\* a.localeCompare(b, undefined, { sensitivity: "base" })
localeCompare(a, b) ==
    CompareFrom([k \in 1..Len(a) |-> BaseWeights[a[k]]],
                [k \in 1..Len(b) |-> BaseWeights[b[k]]], 1)

\* The comparison of Array.prototype.sort() without a comparator.
CodeUnitCompare(a, b) ==
    CompareFrom([k \in 1..Len(a) |-> CodeUnits[a[k]]],
                [k \in 1..Len(b) |-> CodeUnits[b[k]]], 1)

StartsWith(s, p) == Len(p) <= Len(s) /\ SubSeq(s, 1, Len(p)) = p

EndsWith(s, p) == Len(p) <= Len(s) /\ SubSeq(s, Len(s) - Len(p) + 1, Len(s)) = p

IsSpace(c) == c \in {" ", "\t", "\n", "\r"}

\* String.prototype.trim
Trim(s) ==
    LET keep == { k \in 1..Len(s) : ~IsSpace(s[k]) }
    IN  IF keep = {} THEN <<>>
        ELSE LET lo == CHOOSE k \in keep : \A j \in keep : k <= j
                 hi == CHOOSE k \in keep : \A j \in keep : k >= j
             IN  SubSeq(s, lo, hi)

\* The decimal digits of a natural number (a number in a template literal).
RECURSIVE DecimalString(_)
DecimalString(n) ==
    IF n < 10 THEN <<Digits[n + 1]>>
    ELSE Append(DecimalString(n \div 10), Digits[(n % 10) + 1])

(***************************************************************************)
(* Array helpers                                                           *)
(***************************************************************************)
\* Array.prototype.sort(cmp): the specification requires a stable sort; for
\* a consistent comparator every stable sort returns the same array.  It is
\* computed here as an insertion sort: each element is placed after the
\* last element that does not compare greater than it.
InsertSorted(sorted, x, Cmp(_, _)) ==
    LET n == Len(sorted)
        last[k \in 0..n] ==
            IF k = 0 THEN 0
            ELSE IF Cmp(sorted[k], x) > 0 THEN last[k - 1] ELSE k
        pos == last[n]
    IN  SubSeq(sorted, 1, pos) \o <<x>> \o SubSeq(sorted, pos + 1, n)

SortBy(s, Cmp(_, _)) ==
    LET ins[k \in 0..Len(s)] ==
            IF k = 0 THEN <<>> ELSE InsertSorted(ins[k - 1], s[k], Cmp)
    IN  ins[Len(s)]

\* Array.from(new Set(arr)): the first occurrence of each element, in order.
Dedupe(s) ==
    SelectSeq([k \in 1..Len(s) |-> <<k, s[k]>>],
              LAMBDA p : \A j \in 1..(p[1] - 1) : s[j] # p[2])

Unique(s) == LET d == Dedupe(s) IN [k \in 1..Len(d) |-> d[k][2]]

\* Array.prototype.flat (one level)
RECURSIVE Flat(_)
Flat(ss) == IF ss = <<>> THEN <<>> ELSE Head(ss) \o Flat(Tail(ss))

Includes(s, x) == \E k \in 1..Len(s) : s[k] = x

Map(s, F(_)) == [k \in 1..Len(s) |-> F(s[k])]

(***************************************************************************)
(* CSV line parser and document normalizer (UploadFlashcards.jsx)          *)
(***************************************************************************)
\* splitCSVLine taking two quotes for an escaped quote outside quotes too.
RECURSIVE SplitEscapeAnywhere(_, _, _, _, _)
SplitEscapeAnywhere(line, i, fields, cur, inQuotes) ==
    IF i > Len(line) THEN Append(fields, cur)
    ELSE LET ch == line[i] IN
         IF ch = "\"" THEN
             IF i + 1 <= Len(line) /\ line[i + 1] = "\""
             THEN SplitEscapeAnywhere(line, i + 2, fields, Append(cur, "\""), inQuotes)
             ELSE SplitEscapeAnywhere(line, i + 1, fields, cur, ~inQuotes)
         ELSE IF ch = "," /\ ~inQuotes
             THEN SplitEscapeAnywhere(line, i + 1, Append(fields, cur), <<>>, inQuotes)
             ELSE SplitEscapeAnywhere(line, i + 1, fields, Append(cur, ch), inQuotes)

\* splitCSVLine splitting at every comma, quoted or not.
RECURSIVE SplitAtEveryComma(_, _, _, _, _)
SplitAtEveryComma(line, i, fields, cur, inQuotes) ==
    IF i > Len(line) THEN Append(fields, cur)
    ELSE LET ch == line[i] IN
         IF ch = "\"" THEN
             IF inQuotes /\ i + 1 <= Len(line) /\ line[i + 1] = "\""
             THEN SplitAtEveryComma(line, i + 2, fields, Append(cur, "\""), inQuotes)
             ELSE SplitAtEveryComma(line, i + 1, fields, cur, ~inQuotes)
         ELSE IF ch = ","
             THEN SplitAtEveryComma(line, i + 1, Append(fields, cur), <<>>, inQuotes)
             ELSE SplitAtEveryComma(line, i + 1, fields, Append(cur, ch), inQuotes)

RECURSIVE SplitFrom(_, _, _, _, _)
SplitFrom(line, i, fields, cur, inQuotes) ==
    IF i > Len(line) THEN Append(fields, cur)
    ELSE LET ch == line[i] IN
         IF ch = "\"" THEN
             IF inQuotes /\ i + 1 <= Len(line) /\ line[i + 1] = "\""
             THEN SplitFrom(line, i + 2, fields, Append(cur, "\""), inQuotes)
             ELSE SplitFrom(line, i + 1, fields, cur, ~inQuotes)
         ELSE IF ch = "," /\ ~inQuotes
             THEN SplitFrom(line, i + 1, Append(fields, cur), <<>>, inQuotes)
             ELSE SplitFrom(line, i + 1, fields, Append(cur, ch), inQuotes)

splitCSVLine(line) == SplitFrom(line, 1, <<>>, <<>>, FALSE)

stripOuterQuotes(s) ==
    LET t == Trim(s)
    IN  IF Len(t) >= 2 /\ t[1] = "\"" /\ t[Len(t)] = "\""
        THEN SubSeq(t, 2, Len(t) - 1)
        ELSE t

\* String.prototype.split(/\r?\n/)
RECURSIVE SplitLinesFrom(_, _, _, _)
SplitLinesFrom(text, i, lines, cur) ==
    IF i > Len(text) THEN Append(lines, cur)
    ELSE IF text[i] = "\n"
        THEN SplitLinesFrom(text, i + 1, Append(lines, cur), <<>>)
    ELSE IF text[i] = "\r" /\ i + 1 <= Len(text) /\ text[i + 1] = "\n"
        THEN SplitLinesFrom(text, i + 2, Append(lines, cur), <<>>)
    ELSE SplitLinesFrom(text, i + 1, lines, Append(cur, text[i]))

SplitLines(text) == SplitLinesFrom(text, 1, <<>>, <<>>)

\* The id numbering the rows from one.
CardIdOneBased(basePath, idx) ==
    basePath \o <<"_", "_">> \o DecimalString(idx + 1)

\* The id made of the row number alone.
CardIdWithoutPath(basePath, idx) == DecimalString(idx)

\* `${basePath}__${idx}`
CardId(basePath, idx) == basePath \o <<"_", "_">> \o DecimalString(idx)

\* The callback taking the back of the card from the last field.
ParseRowLastField(raw, idx, basePath) ==
    LET cells == splitCSVLine(raw)
    IN  IF Len(cells) < 2 THEN <<>>
        ELSE LET front == stripOuterQuotes(cells[1])
                 back == stripOuterQuotes(cells[Len(cells)])
             IN  IF front = <<>> \/ back = <<>> THEN <<>>
                 ELSE << [id |-> CardId(basePath, idx),
                          path |-> basePath,
                          rowIndex |-> idx,
                          front |-> front,
                          back |-> back] >>

\* The callback of .map in parseCsv; null is the empty list, a card a
\* list of one, so that .filter(Boolean) is the concatenation.
ParseRow(raw, idx, basePath) ==
    LET cells == splitCSVLine(raw)
    IN  IF Len(cells) < 2 THEN <<>>
        ELSE LET front == stripOuterQuotes(cells[1])
                 back == stripOuterQuotes(cells[2])
             IN  IF front = <<>> \/ back = <<>> THEN <<>>
                 ELSE << [id |-> CardId(basePath, idx),
                          path |-> basePath,
                          rowIndex |-> idx,
                          front |-> front,
                          back |-> back] >>

parseCsv(text, basePath) ==
    LET lines == SplitLines(Trim(text))
    IN  Flat([k \in 1..Len(lines) |-> ParseRow(lines[k], k - 1, basePath)])

(***************************************************************************)
(* The documents the user can select.  A File has a name, the path         *)
(* relative to the picked folder (empty for "Select File(s)") and its      *)
(* text.  DocAEdited is a.csv after the user removed two of its lines: the *)
(* same path with other rows.                                              *)
(***************************************************************************)
Csv == <<".", "c", "s", "v">>

DocA ==
    [name |-> <<"a">> \o Csv, webkitRelativePath |-> <<>>,
     text |-> <<"x", ",", "y", "\r", "\n", "f", "o", "o", "\n",
                "\"", "p", " ", "q", "\"", ",", "z", "\n">>]

DocAEdited ==
    [name |-> <<"a">> \o Csv, webkitRelativePath |-> <<>>,
     text |-> <<"x", ",", "y">>]

DocUpperA ==
    [name |-> <<"A">> \o Csv, webkitRelativePath |-> <<>>,
     text |-> <<"u", ",", "v">>]

DocBX ==
    [name |-> <<"x">> \o Csv, webkitRelativePath |-> <<"b", "/", "x">> \o Csv,
     text |-> <<"m", ",", "n">>]

DocEmpty ==
    [name |-> <<"e", ".", "C", "S", "V">>, webkitRelativePath |-> <<>>,
     text |-> <<"f", "o", "o", "\n", ",">>]

\* A row whose first field is written """ """: a quoted field whose content
\* is a quote, a space and a quote.
DocQuoted ==
    [name |-> <<"q">> \o Csv, webkitRelativePath |-> <<>>,
     text |-> <<"\"", "\"", "\"", " ", "\"", "\"", "\"", ",", "z">>]

DocTxt ==
    [name |-> <<"n", ".", "t", "x", "t">>, webkitRelativePath |-> <<>>,
     text |-> <<"t", ",", "u">>]

\* file.webkitRelativePath || file.name
FilePath(f) ==
    IF f.webkitRelativePath # <<>> THEN f.webkitRelativePath ELSE f.name

\* The FileLists of at most n files drawn from Docs: no file twice, and no
\* two files of one selection at the same path.
Selections(Docs, n) ==
    { sel \in UNION { [1..k -> Docs] : k \in 1..n } :
        \A i, j \in 1..Len(sel) : i # j => FilePath(sel[i]) # FilePath(sel[j]) }

(***************************************************************************)
(* Deck Builder: the synchronous steps of handleFiles                      *)
(***************************************************************************)
\* files.filter((f) => f.name.toLowerCase().endsWith(".csv"))
FilterCsv(files) ==
    SelectSeq(files, LAMBDA f : EndsWith(ToLowerCase(f.name), Csv))

\* csvFiles.sort by path, localeCompare with sensitivity "base"
SortFiles(csvFiles) ==
    SortBy(csvFiles, LAMBDA a, b : localeCompare(FilePath(a), FilePath(b)))

\* The comparator of the final sort of allCards.
CompareCards(a, b) ==
    IF a.path = b.path THEN a.rowIndex - b.rowIndex
    ELSE localeCompare(a.path, b.path)

\* allCards.sort(...).  Each file's cards arrive in row order and the files
\* in the order of SortFiles, so no pair of allParsed.flat() is out of
\* order under CompareCards and the sort has nothing to move.
SortCards(allCards) == SortBy(allCards, CompareCards)

\* reader.onload: resolve(parseCsv(reader.result, basePath))
ReadResult(file) == parseCsv(file.text, FilePath(file))

\* What handleFiles hands to onUpload when the selection is `files` and no
\* read fails: filter, sort, read, flatten, sort.
BuildDeck(files) ==
    LET csvFiles == SortFiles(FilterCsv(files))
    IN  SortCards(Flat([k \in 1..Len(csvFiles) |-> ReadResult(csvFiles[k])]))

Paths(cs) == [k \in 1..Len(cs) |-> cs[k].path]

Ids(cs) == [k \in 1..Len(cs) |-> cs[k].id]

(***************************************************************************)
(* StudyFlashcards.jsx: the handlers as functions of the rendered state.   *)
(* A session record s holds the component's useState values of the render  *)
(* whose closures the handler runs in; cs is the `cards` prop.             *)
(* incorrectIds is a JavaScript Set: its iteration order is never read     *)
(* except to list the ids in the exported file, whose order is dropped     *)
(* again by new Set(...) on import, so it is a set here.                   *)
(***************************************************************************)
SCOPE_ALL == <<"_", "_", "A", "L", "L", "_", "C", "A", "R", "D", "S", "_", "_">>

\* What arr[i] gives outside the array.
Undefined == <<"undefined">>

\* arr[i], zero-based as in the source
At(arr, i) == IF i + 1 \in DOMAIN arr THEN arr[i + 1] ELSE Undefined

\* The useState initial values (lines 34-54).
InitialSession(cs) ==
    [cardsForSession |-> cs,
     originalOrder |-> Ids(cs),
     currentOrder |-> Ids(cs),
     isShuffled |-> FALSE,
     currentIndex |-> 0,
     showBack |-> FALSE,
     incorrectIds |-> {},
     finished |-> FALSE,
     frontFirst |-> TRUE,
     fontSizeInput |-> <<"3", "0">>,
     scope |-> SCOPE_ALL]

\* The effect on [cards]: reset the entire session, fontSizeInput kept.
CardsEffect(s, cs) ==
    [s EXCEPT !.cardsForSession = cs,
              !.originalOrder = Ids(cs),
              !.currentOrder = Ids(cs),
              !.isShuffled = FALSE,
              !.currentIndex = 0,
              !.showBack = FALSE,
              !.incorrectIds = {},
              !.finished = FALSE,
              !.frontFirst = TRUE,
              !.scope = SCOPE_ALL]

\* uniqueFiles and uniqueFolders (lines 57-66).  Their sort only orders the
\* options of the dropdown; the handlers test membership alone.
SplitOnSlash(path) ==
    LET cuts == <<0>> \o SelectSeq([k \in 1..Len(path) |-> k],
                                   LAMBDA k : path[k] = "/") \o <<Len(path) + 1>>
    IN  [k \in 1..(Len(cuts) - 1) |-> SubSeq(path, cuts[k] + 1, cuts[k + 1] - 1)]

\* parts.slice(0, i).join("/")
RECURSIVE JoinSlash(_)
JoinSlash(parts) ==
    IF Len(parts) = 0 THEN <<>>
    ELSE IF Len(parts) = 1 THEN parts[1]
    ELSE parts[1] \o <<"/">> \o JoinSlash(Tail(parts))

uniqueFiles(cs) == SortBy(Unique(Paths(cs)), CodeUnitCompare)

\* The folder loop started at i = 0: the empty prefix is a folder too.
FolderListFromEmptyPrefix(cs) ==
    Flat([k \in 1..Len(cs) |->
            LET parts == SplitOnSlash(cs[k].path)
            IN  [i \in 1..Len(parts) |-> JoinSlash(SubSeq(parts, 1, i - 1))]])

FolderList(cs) ==
    Flat([k \in 1..Len(cs) |->
            LET parts == SplitOnSlash(cs[k].path)
            IN  [i \in 1..(Len(parts) - 1) |-> JoinSlash(SubSeq(parts, 1, i))]])

uniqueFolders(cs) == SortBy(Unique(FolderList(cs)), CodeUnitCompare)

\* The options of the scope dropdown.
ScopeOptions(cs) ==
    {SCOPE_ALL} \cup Range(uniqueFolders(cs)) \cup Range(uniqueFiles(cs))

\* The subset selection without the folders: every key but ALL is taken
\* for a file.
SelectScopeExactPath(cs, newScope) ==
    IF newScope = SCOPE_ALL THEN cs
    ELSE SelectSeq(cs, LAMBDA c : c.path = newScope)

\* The subset selection of onScopeChange (lines 126-135).
SelectScope(cs, newScope) ==
    IF newScope = SCOPE_ALL THEN cs
    ELSE IF Includes(uniqueFolders(cs), newScope)
        THEN SelectSeq(cs, LAMBDA c : StartsWith(c.path, newScope \o <<"/">>))
    ELSE IF Includes(uniqueFiles(cs), newScope)
        THEN SelectSeq(cs, LAMBDA c : c.path = newScope)
    ELSE <<>>

\* onScopeChange keeping the order that was showing.
onScopeChangeKeepingOrder(s, cs, newScope) ==
    LET subset == SelectScope(cs, newScope)
    IN  [s EXCEPT !.scope = newScope,
                  !.cardsForSession = subset,
                  !.originalOrder = Ids(subset),
                  !.currentOrder =
                      SelectSeq(s.currentOrder, LAMBDA id : Includes(Ids(subset), id)),
                  !.isShuffled = FALSE,
                  !.currentIndex = 0,
                  !.showBack = FALSE,
                  !.incorrectIds = {},
                  !.finished = FALSE,
                  !.frontFirst = TRUE]

\* onScopeChange without setIncorrectIds(new Set()).
onScopeChangeKeepingWrong(s, cs, newScope) ==
    LET subset == SelectScope(cs, newScope)
    IN  [s EXCEPT !.scope = newScope,
                  !.cardsForSession = subset,
                  !.originalOrder = Ids(subset),
                  !.currentOrder = Ids(subset),
                  !.isShuffled = FALSE,
                  !.currentIndex = 0,
                  !.showBack = FALSE,
                  !.finished = FALSE,
                  !.frontFirst = TRUE]

onScopeChange(s, cs, newScope) ==
    LET subset == SelectScope(cs, newScope)
    IN  [s EXCEPT !.scope = newScope,
                  !.cardsForSession = subset,
                  !.originalOrder = Ids(subset),
                  !.currentOrder = Ids(subset),
                  !.isShuffled = FALSE,
                  !.currentIndex = 0,
                  !.showBack = FALSE,
                  !.incorrectIds = {},
                  !.finished = FALSE,
                  !.frontFirst = TRUE]

\* undoCard leaving the wrong-mark of the card it returns to.
undoCardKeepingMark(s) ==
    IF s.currentIndex > 0
    THEN [s EXCEPT !.currentIndex = s.currentIndex - 1,
                   !.showBack = FALSE,
                   !.finished = FALSE]
    ELSE s

undoCard(s) ==
    IF s.currentIndex > 0
    THEN LET prevIndex == s.currentIndex - 1
             prevCardId == At(s.currentOrder, prevIndex)
         IN  [s EXCEPT !.currentIndex = prevIndex,
                       !.showBack = FALSE,
                       !.incorrectIds = s.incorrectIds \ {prevCardId},
                       !.finished = FALSE]
    ELSE s

\* advanceOrFinish comparing with length instead of length - 1.
advanceOrFinishPastEnd(s) ==
    IF s.currentIndex < Len(s.cardsForSession)
    THEN [s EXCEPT !.currentIndex = s.currentIndex + 1, !.showBack = FALSE]
    ELSE [s EXCEPT !.finished = TRUE]

advanceOrFinish(s) ==
    IF s.currentIndex < Len(s.cardsForSession) - 1
    THEN [s EXCEPT !.currentIndex = s.currentIndex + 1, !.showBack = FALSE]
    ELSE [s EXCEPT !.finished = TRUE]

\* markWrong marking the card it advances to.
markWrongNextCard(s) ==
    LET t == advanceOrFinish(s)
    IN  [t EXCEPT !.incorrectIds =
                      s.incorrectIds \cup {At(t.currentOrder, t.currentIndex)}]

\* setIncorrectIds(add currentOrder[currentIndex]); advanceOrFinish()
markWrong(s) ==
    LET t == advanceOrFinish(s)
    IN  [t EXCEPT !.incorrectIds =
                      s.incorrectIds \cup {At(s.currentOrder, s.currentIndex)}]

markCorrect(s) == advanceOrFinish(s)

\* The values Math.random() can take in the n rounds of shuffleArray:
\* round m (from n down to 1) draws i = floor(random * m) in 0..m-1.
RandomDraws(n) == { r \in [1..n -> 0..(n - 1)] : \A m \in 1..n : r[m] < m }

Swap(a, i, j) ==
    [k \in 1..Len(a) |-> IF k = i THEN a[j] ELSE IF k = j THEN a[i] ELSE a[k]]

\* shuffleArray filling each place with the drawn element instead of
\* swapping it there.
shuffleArrayDrawingWithRepeats(arr, r) ==
    [k \in 1..Len(arr) |-> arr[r[k] + 1]]

\* shuffleArray (Fisher-Yates) under the draws r: round m swaps a[m-1] and
\* a[r[m]] (zero-based).
shuffleArray(arr, r) ==
    LET n == Len(arr)
        after[k \in 0..n] ==
            IF k = 0 THEN arr
            ELSE Swap(after[k - 1], n - k + 1, r[n - k + 1] + 1)
    IN  after[n]

\* toggleShuffle starting the reordered pass with a clean slate of marks.
toggleShuffleClearingMarks(s, r) ==
    IF ~s.isShuffled
    THEN [s EXCEPT !.currentOrder = shuffleArray(Ids(s.cardsForSession), r),
                   !.isShuffled = TRUE,
                   !.currentIndex = 0,
                   !.showBack = FALSE,
                   !.incorrectIds = {}]
    ELSE [s EXCEPT !.currentOrder = Ids(s.cardsForSession),
                   !.isShuffled = FALSE,
                   !.currentIndex = 0,
                   !.showBack = FALSE,
                   !.incorrectIds = {}]

toggleShuffle(s, r) ==
    IF ~s.isShuffled
    THEN [s EXCEPT !.currentOrder = shuffleArray(Ids(s.cardsForSession), r),
                   !.isShuffled = TRUE,
                   !.currentIndex = 0,
                   !.showBack = FALSE]
    ELSE [s EXCEPT !.currentOrder = Ids(s.cardsForSession),
                   !.isShuffled = FALSE,
                   !.currentIndex = 0,
                   !.showBack = FALSE]

\* reviewWrongOnly listing the wrong ids in the order they were shown.
reviewWrongOnlyInAnswerOrder(s, cs) ==
    LET wrongIds == SelectSeq(s.currentOrder, LAMBDA id : id \in s.incorrectIds)
    IN  IF Len(wrongIds) = 0 THEN s
        ELSE [s EXCEPT !.cardsForSession =
                           SelectSeq(cs, LAMBDA c : Includes(wrongIds, c.id)),
                       !.originalOrder = wrongIds,
                       !.currentOrder = wrongIds,
                       !.isShuffled = FALSE,
                       !.currentIndex = 0,
                       !.showBack = FALSE,
                       !.incorrectIds = {},
                       !.finished = FALSE,
                       !.frontFirst = TRUE]

reviewWrongOnly(s, cs) ==
    LET wrongIds == Ids(SelectSeq(s.cardsForSession,
                                  LAMBDA c : c.id \in s.incorrectIds))
    IN  IF Len(wrongIds) = 0 THEN s
        ELSE [s EXCEPT !.cardsForSession =
                           SelectSeq(cs, LAMBDA c : Includes(wrongIds, c.id)),
                       !.originalOrder = wrongIds,
                       !.currentOrder = wrongIds,
                       !.isShuffled = FALSE,
                       !.currentIndex = 0,
                       !.showBack = FALSE,
                       !.incorrectIds = {},
                       !.finished = FALSE,
                       !.frontFirst = TRUE]

\* restartFullDeck restarting the cards of the session, not of the deck.
restartSessionCards(s, cs) ==
    [s EXCEPT !.scope = SCOPE_ALL,
              !.originalOrder = Ids(s.cardsForSession),
              !.currentOrder = Ids(s.cardsForSession),
              !.isShuffled = FALSE,
              !.currentIndex = 0,
              !.showBack = FALSE,
              !.incorrectIds = {},
              !.finished = FALSE,
              !.frontFirst = TRUE]

restartFullDeck(s, cs) ==
    [s EXCEPT !.scope = SCOPE_ALL,
              !.cardsForSession = cs,
              !.originalOrder = Ids(cs),
              !.currentOrder = Ids(cs),
              !.isShuffled = FALSE,
              !.currentIndex = 0,
              !.showBack = FALSE,
              !.incorrectIds = {},
              !.finished = FALSE,
              !.frontFirst = TRUE]

\* onClick of the card box: setShowBack((s) => !s)
flipCard(s) == [s EXCEPT !.showBack = ~s.showBack]

\* The "Show definition first" checkbox: setFrontFirst((f) => !f)
toggleFrontFirst(s) == [s EXCEPT !.frontFirst = ~s.frontFirst]

\* value.replace(/^0+/, "")
StripLeadingZeros(v) ==
    LET nz == { k \in 1..Len(v) : v[k] # "0" }
    IN  IF nz = {} THEN <<>>
        ELSE SubSeq(v, CHOOSE k \in nz : \A j \in nz : k <= j, Len(v))

\* onChange of the font size input
setFontSize(s, value) == [s EXCEPT !.fontSizeInput = StripLeadingZeros(value)]

\* parseInt(str, 10) of a string without sign or leading white space: the
\* value of its longest prefix of digits, NaN (here -1) when that is empty.
RECURSIVE DigitsValue(_)
DigitsValue(ds) ==
    IF ds = <<>> THEN 0
    ELSE 10 * DigitsValue(SubSeq(ds, 1, Len(ds) - 1))
         + (IndexOf(Digits, ds[Len(ds)]) - 1)

ParseInt(str) ==
    LET bad == { k \in 1..Len(str) : str[k] \notin DigitSet } \cup {Len(str) + 1}
        stop == CHOOSE k \in bad : \A j \in bad : k <= j
    IN  IF stop = 1 THEN -1 ELSE DigitsValue(SubSeq(str, 1, stop - 1))

\* fontSizePx = isNaN(parsedSize) ? 30 : parsedSize
FontSizePx(s) ==
    LET parsedSize == ParseInt(s.fontSizeInput)
    IN  IF parsedSize = -1 THEN 30 ELSE parsedSize

(***************************************************************************)
(* Snapshot codec.  A parsed state.json is a record; a field the file does *)
(* not have is a field the record does not have.                           *)
(***************************************************************************)
Null == [null |-> TRUE]

Has(parsed, f) == f \in DOMAIN parsed

\* Array.from(new Set(paths)).sort(localeCompare base)
SortedUniquePaths(paths) == SortBy(Unique(paths), localeCompare)

\* buildStateObject saving the ids of the full deck as sessionIds.
buildStateObjectFullDeck(s, cs) ==
    [paths |-> SortedUniquePaths(Paths(cs)),
     sessionIds |-> Ids(cs),
     originalOrder |-> s.originalOrder,
     currentOrder |-> s.currentOrder,
     currentIndex |-> s.currentIndex,
     incorrectIds |-> s.incorrectIds,
     scope |-> s.scope,
     isShuffled |-> s.isShuffled,
     frontFirst |-> s.frontFirst,
     fontSizeInput |-> s.fontSizeInput,
     finished |-> s.finished]

\* buildStateObject saving the paths of the session's cards as paths.
buildStateObjectSessionPaths(s, cs) ==
    [paths |-> SortedUniquePaths(Paths(s.cardsForSession)),
     sessionIds |-> Ids(s.cardsForSession),
     originalOrder |-> s.originalOrder,
     currentOrder |-> s.currentOrder,
     currentIndex |-> s.currentIndex,
     incorrectIds |-> s.incorrectIds,
     scope |-> s.scope,
     isShuffled |-> s.isShuffled,
     frontFirst |-> s.frontFirst,
     fontSizeInput |-> s.fontSizeInput,
     finished |-> s.finished]

buildStateObject(s, cs) ==
    [paths |-> SortedUniquePaths(Paths(cs)),
     sessionIds |-> Ids(s.cardsForSession),
     originalOrder |-> s.originalOrder,
     currentOrder |-> s.currentOrder,
     currentIndex |-> s.currentIndex,
     incorrectIds |-> s.incorrectIds,
     scope |-> s.scope,
     isShuffled |-> s.isShuffled,
     frontFirst |-> s.frontFirst,
     fontSizeInput |-> s.fontSizeInput,
     finished |-> s.finished]

\* What JSON.stringify writes for an undefined array element.
JsonNull == <<"null">>

JsonElement(x) == IF x = Undefined THEN JsonNull ELSE x

\* JSON.parse(JSON.stringify(obj)) of a state object: strings, integers and
\* booleans come back as written, an undefined array element as null.  The
\* array of incorrectIds becomes a Set again in restoreFromObject.
JsonRoundTrip(obj) ==
    [obj EXCEPT !.originalOrder = Map(@, JsonElement),
                !.currentOrder = Map(@, JsonElement),
                !.incorrectIds = { JsonElement(x) : x \in @ }]

\* A state.json whose text JSON.parse throws on.
Unparsable == [unparsable |-> TRUE]

\* A state.json from which the user deleted the key f.
WithoutField(obj, f) == [g \in DOMAIN obj \ {f} |-> obj[g]]

\* pathsMatch of importStateFromFile and of the initialState effect
PathsMatch(parsed, cs) ==
    LET savedPaths == SortedUniquePaths(IF Has(parsed, "paths") THEN parsed.paths ELSE <<>>)
        currentPaths == SortedUniquePaths(Paths(cs))
    IN  /\ Len(savedPaths) = Len(currentPaths)
        /\ \A i \in 1..Len(savedPaths) : savedPaths[i] = currentPaths[i]

\* restoreFromObject starting the restored session at its first card.
restoreFromObjectAtFirstCard(s, cs, parsed) ==
    LET sessionIds == IF Has(parsed, "sessionIds") THEN parsed.sessionIds ELSE <<>>
        subset == SelectSeq(cs, LAMBDA c : Includes(sessionIds, c.id))
        fallback == IF Has(parsed, "sessionIds") THEN parsed.sessionIds ELSE Ids(subset)
    IN  [s EXCEPT
           !.scope = IF Has(parsed, "scope") THEN parsed.scope ELSE SCOPE_ALL,
           !.cardsForSession = subset,
           !.originalOrder =
               IF Has(parsed, "originalOrder") THEN parsed.originalOrder ELSE fallback,
           !.currentOrder =
               IF Has(parsed, "currentOrder") THEN parsed.currentOrder ELSE fallback,
           !.currentIndex = 0,
           !.incorrectIds =
               IF Has(parsed, "incorrectIds") THEN parsed.incorrectIds ELSE {},
           !.isShuffled =
               IF Has(parsed, "isShuffled") THEN parsed.isShuffled ELSE FALSE,
           !.finished =
               IF Has(parsed, "finished") THEN parsed.finished ELSE FALSE,
           !.frontFirst =
               IF Has(parsed, "frontFirst") THEN parsed.frontFirst ELSE TRUE,
           !.fontSizeInput =
               IF Has(parsed, "fontSizeInput") /\ parsed.fontSizeInput # <<>>
               THEN parsed.fontSizeInput ELSE <<"3", "0">>]

restoreFromObject(s, cs, parsed) ==
    LET sessionIds == IF Has(parsed, "sessionIds") THEN parsed.sessionIds ELSE <<>>
        subset == SelectSeq(cs, LAMBDA c : Includes(sessionIds, c.id))
        fallback == IF Has(parsed, "sessionIds") THEN parsed.sessionIds ELSE Ids(subset)
    IN  [s EXCEPT
           !.scope = IF Has(parsed, "scope") THEN parsed.scope ELSE SCOPE_ALL,
           !.cardsForSession = subset,
           !.originalOrder =
               IF Has(parsed, "originalOrder") THEN parsed.originalOrder ELSE fallback,
           !.currentOrder =
               IF Has(parsed, "currentOrder") THEN parsed.currentOrder ELSE fallback,
           !.currentIndex =
               IF Has(parsed, "currentIndex") THEN parsed.currentIndex ELSE 0,
           !.incorrectIds =
               IF Has(parsed, "incorrectIds") THEN parsed.incorrectIds ELSE {},
           !.isShuffled =
               IF Has(parsed, "isShuffled") THEN parsed.isShuffled ELSE FALSE,
           !.finished =
               IF Has(parsed, "finished") THEN parsed.finished ELSE FALSE,
           !.frontFirst =
               IF Has(parsed, "frontFirst") THEN parsed.frontFirst ELSE TRUE,
           !.fontSizeInput =
               IF Has(parsed, "fontSizeInput") /\ parsed.fontSizeInput # <<>>
               THEN parsed.fontSizeInput ELSE <<"3", "0">>]

\* Mounting StudyFlashcards: the useState initial values, then the effect
\* on [cards], then the effect on [initialState] (in the order declared).
MountStudy(cs, initialState) ==
    LET s == CardsEffect(InitialSession(cs), cs)
    IN  IF initialState = Null THEN s
        ELSE IF ~PathsMatch(initialState, cs) THEN s
        ELSE restoreFromObject(s, cs, initialState)

(***************************************************************************)
(* State                                                                   *)
(***************************************************************************)
VARIABLES
    \* App (useState of App.jsx)
    cards, pendingState, expectedPaths, initialStateForStudy,
    \* UploadFlashcards: useState, and the batch of reads handleFiles started
    error, importStatus, files, settled, batchLog,
    \* StudyFlashcards (useState); the initial values while it is unmounted
    cardsForSession, originalOrder, currentOrder, isShuffled, currentIndex,
    showBack, incorrectIds, finished, frontFirst, fontSizeInput, scope,
    \* the alert() dialog of the last event, the user's state.json, and
    \* how many times the user has downloaded it
    alerted, stateFile, exports

appVars == <<cards, pendingState, expectedPaths, initialStateForStudy>>

uploadVars == <<error, importStatus, files, settled, batchLog>>

studyVars ==
    <<cardsForSession, originalOrder, currentOrder, isShuffled, currentIndex,
      showBack, incorrectIds, finished, frontFirst, fontSizeInput, scope>>

envVars == <<stateFile, exports>>

vars == <<appVars, uploadVars, studyVars, alerted, envVars>>

\* The state of the rendered StudyFlashcards, as its handlers close over it.
Session ==
    [cardsForSession |-> cardsForSession,
     originalOrder |-> originalOrder,
     currentOrder |-> currentOrder,
     isShuffled |-> isShuffled,
     currentIndex |-> currentIndex,
     showBack |-> showBack,
     incorrectIds |-> incorrectIds,
     finished |-> finished,
     frontFirst |-> frontFirst,
     fontSizeInput |-> fontSizeInput,
     scope |-> scope]

\* The state setters of one event, applied together at the next render.
SetSession(s) ==
    /\ cardsForSession' = s.cardsForSession
    /\ originalOrder' = s.originalOrder
    /\ currentOrder' = s.currentOrder
    /\ isShuffled' = s.isShuffled
    /\ currentIndex' = s.currentIndex
    /\ showBack' = s.showBack
    /\ incorrectIds' = s.incorrectIds
    /\ finished' = s.finished
    /\ frontFirst' = s.frontFirst
    /\ fontSizeInput' = s.fontSizeInput
    /\ scope' = s.scope

\* The component's state is s (in an initial condition).
SessionIs(s) ==
    /\ cardsForSession = s.cardsForSession
    /\ originalOrder = s.originalOrder
    /\ currentOrder = s.currentOrder
    /\ isShuffled = s.isShuffled
    /\ currentIndex = s.currentIndex
    /\ showBack = s.showBack
    /\ incorrectIds = s.incorrectIds
    /\ finished = s.finished
    /\ frontFirst = s.frontFirst
    /\ fontSizeInput = s.fontSizeInput
    /\ scope = s.scope

sessionIds == Ids(cardsForSession)

\* Messages (setError, alert) by kind and content.
NoError == [kind |-> "none"]

NoAlert == [kind |-> "none"]

NoBatch == [onUpload |-> 0, errors |-> 0]

\* How the render of App and of StudyFlashcards chooses the view.
UploadPage == Len(cards) = 0

NoCardsView == ~UploadPage /\ Len(cardsForSession) = 0 /\ ~finished

CompletedView == ~UploadPage /\ finished

MainView == ~UploadPage /\ ~NoCardsView /\ ~finished

(***************************************************************************)
(* The batch of concurrent reads: settled lists the FileReader events in   *)
(* the order they fired, each with the index of its file in csvFiles.      *)
(***************************************************************************)
SettledIndices(evs) == { evs[k].index : k \in 1..Len(evs) }

\* A join that waits for every read and overlooks the failed ones.
PromiseStateIgnoringFailure(fs, evs) ==
    IF SettledIndices(evs) = 1..Len(fs) THEN "fulfilled" ELSE "pending"

\* The promise of Promise.all: rejected by the first failed read, fulfilled
\* by the last successful one.
PromiseState(fs, evs) ==
    IF \E k \in 1..Len(evs) : ~evs[k].ok THEN "rejected"
    ELSE IF SettledIndices(evs) = 1..Len(fs) THEN "fulfilled"
    ELSE "pending"

\* The results in the order the reads completed.
AllParsedByCompletion(fs, evs) == [i \in 1..Len(fs) |-> evs[i].value]

\* The value of Promise.all: each read's result at the index of its file.
AllParsed(fs, evs) ==
    [i \in 1..Len(fs) |->
        LET k == CHOOSE k \in 1..Len(evs) : evs[k].index = i IN evs[k].value]

BatchInFlight == files # <<>> /\ PromiseState(files, settled) = "pending"

(***************************************************************************)
(* App.jsx                                                                 *)
(***************************************************************************)
\* pathsMatch of handleUpload: the saved paths are sorted, not deduplicated.
UploadPathsMatch(pending, newCards) ==
    LET uploadedPaths == SortedUniquePaths(Paths(newCards))
        savedPaths == SortBy(IF Has(pending, "paths") THEN pending.paths ELSE <<>>,
                             localeCompare)
    IN  /\ Len(uploadedPaths) = Len(savedPaths)
        /\ \A i \in 1..Len(uploadedPaths) : uploadedPaths[i] = savedPaths[i]

\* handleUpload(newCards), and the mount of StudyFlashcards that the new
\* cards bring about in the same render.
handleUpload(newCards) ==
    IF pendingState # Null
    THEN IF ~UploadPathsMatch(pendingState, newCards)
         THEN /\ alerted' = [kind |-> "UploadMismatch"]
              /\ UNCHANGED <<appVars, studyVars>>
         ELSE /\ cards' = newCards
              /\ initialStateForStudy' = pendingState
              /\ pendingState' = Null
              /\ expectedPaths' = <<>>
              /\ SetSession(MountStudy(newCards, pendingState))
              /\ alerted' = NoAlert
    ELSE /\ cards' = newCards
         /\ initialStateForStudy' = Null
         /\ UNCHANGED <<pendingState, expectedPaths>>
         /\ SetSession(MountStudy(newCards, Null))
         /\ alerted' = NoAlert

\* handleStateImported(parsed)
handleStateImported(parsed) ==
    LET dedupSorted == SortedUniquePaths(parsed.paths)
    IN  /\ pendingState' = [parsed EXCEPT !.paths = dedupSorted]
        /\ expectedPaths' = dedupSorted

\* resetToUpload: StudyFlashcards unmounts, UploadFlashcards mounts anew.
ResetToUpload ==
    /\ NoCardsView \/ CompletedView
    /\ cards' = <<>>
    /\ pendingState' = Null
    /\ expectedPaths' = <<>>
    /\ initialStateForStudy' = Null
    /\ SetSession(InitialSession(<<>>))
    /\ error' = NoError
    /\ importStatus' = ""
    /\ files' = <<>>
    /\ settled' = <<>>
    /\ batchLog' = NoBatch
    /\ alerted' = NoAlert
    /\ UNCHANGED envVars

(***************************************************************************)
(* UploadFlashcards.jsx: handleFiles                                       *)
(***************************************************************************)
\* handleFiles up to the await: filter, sort, and start one read per file.
\* One batch is read at a time: the page takes no other input while the
\* promise of a batch is pending.
HandleFiles(sel) ==
    /\ UploadPage
    /\ ~BatchInFlight
    /\ LET csvFiles == FilterCsv(sel)
       IN  IF Len(csvFiles) = 0
           THEN /\ error' = [kind |-> "NoCsv"]
                /\ files' = <<>>
                /\ batchLog' = [onUpload |-> 0, errors |-> 1]
           ELSE /\ error' = NoError
                /\ files' = SortFiles(csvFiles)
                /\ batchLog' = NoBatch
    /\ importStatus' = ""
    /\ settled' = <<>>
    /\ alerted' = NoAlert
    /\ UNCHANGED <<appVars, studyVars, envVars>>

\* handleFiles after the await without the check of allCards.length.
AfterAwaitNoEmptyCheck(allParsed) ==
    LET sorted == SortCards(Flat(allParsed))
    IN  /\ batchLog' = [batchLog EXCEPT !.onUpload = @ + 1]
        /\ UNCHANGED error
        /\ handleUpload(sorted)

\* handleFiles after the await (steps 4 to 6), allParsed the promise's value.
AfterAwait(allParsed) ==
    LET allCards == Flat(allParsed)
    IN  IF Len(allCards) = 0
        THEN /\ error' = [kind |-> "EmptyDeck"]
             /\ batchLog' = [batchLog EXCEPT !.errors = @ + 1]
             /\ alerted' = NoAlert
             /\ UNCHANGED <<appVars, studyVars>>
        ELSE LET sorted == SortCards(allCards)
                 uploadedPaths == SortBy(Unique(Paths(sorted)), CodeUnitCompare)
                 required == SortBy(expectedPaths, CodeUnitCompare)
                 missing == SelectSeq(required, LAMBDA p : ~Includes(uploadedPaths, p))
                 extra == SelectSeq(uploadedPaths, LAMBDA p : ~Includes(required, p))
             IN  IF Len(expectedPaths) > 0 /\ (Len(missing) > 0 \/ Len(extra) > 0)
                 THEN /\ error' = [kind |-> "PathMismatch",
                                   missing |-> missing, extra |-> extra]
                      /\ batchLog' = [batchLog EXCEPT !.errors = @ + 1]
                      /\ alerted' = NoAlert
                      /\ UNCHANGED <<appVars, studyVars>>
                 ELSE /\ batchLog' = [batchLog EXCEPT !.onUpload = @ + 1]
                      /\ UNCHANGED error
                      /\ handleUpload(sorted)

\* reader.onload of the read of csvFiles[i]: its promise resolves with the
\* parsed cards; the last one fulfils Promise.all and handleFiles resumes.
ReadLoad(i) ==
    /\ i \in (1..Len(files)) \ SettledIndices(settled)
    /\ LET evs == Append(settled, [index |-> i, ok |-> TRUE,
                                   value |-> ReadResult(files[i])])
       IN  /\ settled' = evs
           /\ IF /\ PromiseState(files, settled) = "pending"
                 /\ PromiseState(files, evs) = "fulfilled"
              THEN AfterAwait(AllParsed(files, evs))
              ELSE /\ alerted' = NoAlert
                   /\ UNCHANGED <<appVars, studyVars, error, batchLog>>
    /\ UNCHANGED <<files, importStatus, envVars>>

\* reader.onerror of the read of csvFiles[i]: its promise rejects; the first
\* rejection rejects Promise.all and handleFiles resumes in its catch.
ReadError(i) ==
    /\ i \in (1..Len(files)) \ SettledIndices(settled)
    /\ settled' = Append(settled, [index |-> i, ok |-> FALSE, value |-> <<>>])
    /\ IF PromiseState(files, settled) = "pending"
       THEN /\ error' = [kind |-> "ReadFailure", name |-> files[i].name]
            /\ batchLog' = [batchLog EXCEPT !.errors = @ + 1]
       ELSE UNCHANGED <<error, batchLog>>
    /\ alerted' = NoAlert
    /\ UNCHANGED <<appVars, studyVars, files, importStatus, envVars>>

\* handleStateImport: the user picks the state.json exported earlier.
HandleStateImport ==
    /\ UploadPage
    /\ ~BatchInFlight
    /\ stateFile # Null
    /\ IF stateFile = Unparsable
       THEN /\ error' = [kind |-> "ParseFailure"]
            /\ importStatus' = ""
            /\ UNCHANGED <<pendingState, expectedPaths>>
       ELSE IF ~Has(stateFile, "paths") \/ Len(stateFile.paths) = 0
       THEN /\ error' = [kind |-> "InvalidState"]
            /\ importStatus' = ""
            /\ UNCHANGED <<pendingState, expectedPaths>>
       ELSE /\ handleStateImported(stateFile)
            /\ error' = NoError
            /\ importStatus' = "imported"
    /\ alerted' = NoAlert
    /\ UNCHANGED <<cards, initialStateForStudy, files, settled, batchLog,
                   studyVars, envVars>>

(***************************************************************************)
(* Bounds and inputs                                                       *)
(***************************************************************************)
\* The largest number of files in one selection on the upload page.
MaxSelect == 2

\* The largest number of files in the upload a study session starts from.
MaxSessionSelect == 2

\* The largest number of times the user downloads state.json.
MaxExports == 1

\* What the user types into the font size input: 08 is kept as 8, 0 as the
\* empty string.
FontInputs == { <<"0", "8">>, <<"0">> }

UploadDocs == {DocA, DocUpperA, DocBX, DocEmpty, DocTxt, DocQuoted}

UploadSelections == Selections(UploadDocs, MaxSelect)

SessionDocs == {DocA, DocUpperA, DocBX}

\* The decks an upload of at most MaxSessionSelect documents builds.
Decks == { BuildDeck(sel) : sel \in Selections(SessionDocs, MaxSessionSelect) }

\* With snapshots, the user uploads one document at a time: a.csv, a.csv
\* after the edit, or the folder b.
SnapshotSelections == { <<DocA>>, <<DocAEdited>>, <<DocBX>> }

\* The keys of state.json other than fontSizeInput.
RequiredFields ==
    {"paths", "sessionIds", "originalOrder", "currentOrder", "currentIndex",
     "incorrectIds", "scope", "isShuffled", "frontFirst", "finished"}

\* The state.json exported from the session on deck d after a first wrong
\* answer (from the fresh session when d has one card only).
SnapshotOf(d) ==
    LET fresh == MountStudy(d, Null)
    IN  JsonRoundTrip(buildStateObject(
            IF Len(d) > 1 THEN markWrong(fresh) ELSE fresh, d))

\* The session on a.csv and b/x.csv after a shuffle, a wrong answer, the
\* "Show definition first" checkbox and the font size 08.
ShuffledSession ==
    setFontSize(
        toggleFrontFirst(
            markWrong(
                toggleShuffle(MountStudy(BuildDeck(<<DocA, DocBX>>), Null),
                              <<0, 0, 0>>))),
        <<"0", "8">>)

\* The state.json exported from it, and the one exported two answers later,
\* when the pass has finished.
ShuffledSnapshot ==
    JsonRoundTrip(buildStateObject(ShuffledSession, BuildDeck(<<DocA, DocBX>>)))

FinishedSnapshot ==
    JsonRoundTrip(buildStateObject(markCorrect(markCorrect(ShuffledSession)),
                                   BuildDeck(<<DocA, DocBX>>)))

\* The keys restoreFromObject gives a default with ?? or || "30".
OptionalFields ==
    {"currentIndex", "isShuffled", "frontFirst", "finished", "fontSizeInput"}

\* A state.json to which the user added the key f with value v.
WithField(obj, f, v) ==
    [g \in DOMAIN obj \cup {f} |-> IF g = f THEN v ELSE obj[g]]

\* A state.json that holds the font size under the key fontSize.
FontSizeSnapshot ==
    WithField(WithoutField(ShuffledSnapshot, "fontSizeInput"), "fontSize", <<"8">>)

\* The state.json files the user may hold: one exported from each deck,
\* the one of a.csv with a key deleted, one that is not JSON, those of the
\* shuffled and the finished session, and these with an optional key
\* deleted or with the font size under the key fontSize.
StateFiles ==
    { SnapshotOf(d) : d \in Decks }
        \cup { WithoutField(SnapshotOf(BuildDeck(<<DocA>>)), f) : f \in RequiredFields }
        \cup { Unparsable }
        \cup { ShuffledSnapshot, FinishedSnapshot, FontSizeSnapshot,
               WithoutField(FinishedSnapshot, "finished") }
        \cup { WithoutField(ShuffledSnapshot, f) : f \in OptionalFields }

ImportSelections == Selections(SessionDocs, MaxSessionSelect)

(***************************************************************************)
(* StudyFlashcards.jsx: one action per control, enabled in the view that   *)
(* renders the control.                                                    *)
(***************************************************************************)
StudyStep(s) ==
    /\ SetSession(s)
    /\ alerted' = NoAlert
    /\ UNCHANGED <<appVars, uploadVars, envVars>>

MarkWrong == MainView /\ StudyStep(markWrong(Session))

MarkCorrect == MainView /\ StudyStep(markCorrect(Session))

UndoCard == MainView /\ StudyStep(undoCard(Session))

ToggleShuffle(r) == MainView /\ StudyStep(toggleShuffle(Session, r))

ScopeChange(newScope) ==
    MainView /\ StudyStep(onScopeChange(Session, cards, newScope))

ReviewWrongOnly ==
    /\ CompletedView
    /\ Cardinality(incorrectIds) > 0
    /\ StudyStep(reviewWrongOnly(Session, cards))

RestartFullDeck ==
    /\ CompletedView \/ MainView
    /\ StudyStep(restartFullDeck(Session, cards))

Flip == MainView /\ StudyStep(flipCard(Session))

ToggleFrontFirst == MainView /\ StudyStep(toggleFrontFirst(Session))

SetFontSize(value) == MainView /\ StudyStep(setFontSize(Session, value))

\* exportState: the download replaces the user's state.json; stateFile is
\* its content as JSON.parse reads it back.
ExportState ==
    /\ MainView
    /\ exports < MaxExports
    /\ stateFile' = JsonRoundTrip(buildStateObject(Session, cards))
    /\ exports' = exports + 1
    /\ alerted' = NoAlert
    /\ UNCHANGED <<appVars, uploadVars, studyVars>>

\* importStateFromFile restoring before it has compared the paths.
ImportStateFromFileUnvalidated ==
    /\ MainView
    /\ stateFile # Null
    /\ stateFile # Unparsable
    /\ SetSession(restoreFromObject(Session, cards, stateFile))
    /\ alerted' = [kind |-> IF PathsMatch(stateFile, cards)
                            THEN "StateImported" ELSE "ImportMismatch"]
    /\ UNCHANGED <<appVars, uploadVars, envVars>>

\* importStateFromFile with the user's state.json
ImportStateFromFile ==
    /\ MainView
    /\ stateFile # Null
    /\ IF stateFile = Unparsable
       THEN /\ alerted' = [kind |-> "ParseFailure"]
            /\ UNCHANGED studyVars
       ELSE IF PathsMatch(stateFile, cards)
       THEN /\ SetSession(restoreFromObject(Session, cards, stateFile))
            /\ alerted' = [kind |-> "StateImported"]
       ELSE /\ alerted' = [kind |-> "ImportMismatch"]
            /\ UNCHANGED studyVars
    /\ UNCHANGED <<appVars, uploadVars, envVars>>

(***************************************************************************)
(* Specifications                                                          *)
(***************************************************************************)
InitUpload ==
    /\ cards = <<>>
    /\ pendingState = Null
    /\ expectedPaths = <<>>
    /\ initialStateForStudy = Null
    /\ error = NoError
    /\ importStatus = ""
    /\ files = <<>>
    /\ settled = <<>>
    /\ batchLog = NoBatch
    /\ SessionIs(InitialSession(<<>>))
    /\ alerted = NoAlert
    /\ stateFile = Null
    /\ exports = 0

\* The session freshly built over an uploaded deck.
Init ==
    /\ cards \in Decks
    /\ pendingState = Null
    /\ expectedPaths = <<>>
    /\ initialStateForStudy = Null
    /\ error = NoError
    /\ importStatus = ""
    /\ files = <<>>
    /\ settled = <<>>
    /\ batchLog = NoBatch
    /\ SessionIs(MountStudy(cards, Null))
    /\ alerted = NoAlert
    /\ stateFile = Null
    /\ exports = 0

\* The session state machine.
Next ==
    \/ MarkWrong
    \/ MarkCorrect
    \/ UndoCard
    \/ \E r \in RandomDraws(Len(cardsForSession)) : ToggleShuffle(r)
    \/ \E newScope \in ScopeOptions(cards) : ScopeChange(newScope)
    \/ ReviewWrongOnly
    \/ RestartFullDeck
    \/ Flip
    \/ ToggleFrontFirst
    \/ \E value \in FontInputs : SetFontSize(value)

Spec == Init /\ [][Next]_vars

\* The upload page: batches of concurrent reads.
UploadNext ==
    \/ \E sel \in UploadSelections : HandleFiles(sel)
    \/ \E i \in 1..Len(files) : ReadLoad(i)
    \/ \E i \in 1..Len(files) : ReadError(i)

UploadSpec == InitUpload /\ [][UploadNext]_vars

\* Uploads, sessions and the export and import of their snapshots.
SnapshotNext ==
    \/ \E sel \in SnapshotSelections : HandleFiles(sel)
    \/ \E i \in 1..Len(files) : ReadLoad(i)
    \/ HandleStateImport
    \/ ResetToUpload
    \/ MarkWrong
    \/ MarkCorrect
    \/ UndoCard
    \/ \E r \in RandomDraws(Len(cardsForSession)) : ToggleShuffle(r)
    \/ \E newScope \in ScopeOptions(cards) : ScopeChange(newScope)
    \/ ReviewWrongOnly
    \/ RestartFullDeck
    \/ ExportState
    \/ ImportStateFromFile

SnapshotSpec == InitUpload /\ [][SnapshotNext]_vars

\* The user arrives with a state.json of an earlier visit.
InitImport ==
    /\ cards = <<>>
    /\ pendingState = Null
    /\ expectedPaths = <<>>
    /\ initialStateForStudy = Null
    /\ error = NoError
    /\ importStatus = ""
    /\ files = <<>>
    /\ settled = <<>>
    /\ batchLog = NoBatch
    /\ SessionIs(InitialSession(<<>>))
    /\ alerted = NoAlert
    /\ stateFile \in StateFiles
    /\ exports = 0

\* Both import routes: state.json before the upload, or inside the session.
ImportNext ==
    \/ HandleStateImport
    \/ \E sel \in ImportSelections : HandleFiles(sel)
    \/ \E i \in 1..Len(files) : ReadLoad(i)
    \/ ImportStateFromFile
    \/ MarkWrong
    \/ MarkCorrect
    \/ Flip

ImportSpec == InitImport /\ [][ImportNext]_vars

\* Passes over the deck, changes of scope and reviews: the subsets of the
\* deck a session can be on.
ScopeNext ==
    \/ \E newScope \in ScopeOptions(cards) : ScopeChange(newScope)
    \/ MarkWrong
    \/ MarkCorrect
    \/ UndoCard
    \/ ReviewWrongOnly
    \/ RestartFullDeck

ScopeSpec == Init /\ [][ScopeNext]_vars

\* The transitions that decide which cards a pass shows, in which order and
\* with which marks.
PassNext ==
    \/ MarkWrong
    \/ MarkCorrect
    \/ UndoCard
    \/ \E r \in RandomDraws(Len(cardsForSession)) : ToggleShuffle(r)
    \/ \E newScope \in ScopeOptions(cards) : ScopeChange(newScope)
    \/ ReviewWrongOnly
    \/ RestartFullDeck

PassSpec == Init /\ [][PassNext]_vars

(***************************************************************************)
(* One document of any text: the reader of handleFiles applies parseCsv    *)
(* (and with it splitCSVLine and stripOuterQuotes) to what the file holds. *)
(***************************************************************************)
\* The longest text of the document.
MaxTextLen == 5

\* The characters of the text: the quote, the comma, two letters and the
\* line feed.
TextChars == {"\"", ",", "a", "b", "\n"}

Texts == UNION { [1..n -> TextChars] : n \in 0..MaxTextLen }

\* The document t.csv, selected with "Select File(s)".
TypedDoc(text) ==
    [name |-> <<"t">> \o Csv, webkitRelativePath |-> <<>>, text |-> text]

\* handleFiles has started the read of the one selected document.
InitParse ==
    /\ cards = <<>>
    /\ pendingState = Null
    /\ expectedPaths = <<>>
    /\ initialStateForStudy = Null
    /\ error = NoError
    /\ importStatus = ""
    /\ \E text \in Texts : files = <<TypedDoc(text)>>
    /\ settled = <<>>
    /\ batchLog = NoBatch
    /\ SessionIs(InitialSession(<<>>))
    /\ alerted = NoAlert
    /\ stateFile = Null
    /\ exports = 0

ParseNext == \E i \in 1..Len(files) : ReadLoad(i)

ParseSpec == InitParse /\ [][ParseNext]_vars

(***************************************************************************)
(* Properties of the session state machine (Spec)                          *)
(***************************************************************************)
\* The session is Active: a deck is loaded and the run is not finished.
Active == ~UploadPage /\ ~finished

\* C1: from a freshly built session over a non-empty deck, after any
\* sequence of answers, undos, shuffles, scope changes, wrong-only reviews,
\* restarts and flips, every id in incorrectIds is the id of a card of the
\* current session.
C1_IncorrectIdsWithinSession == incorrectIds \subseteq Range(sessionIds)

\* A wrong answer recorded in a shuffled session narrowed to a part of the
\* deck.
C1_WrongInNarrowedSession ==
    /\ incorrectIds # {}
    /\ isShuffled
    /\ Len(cardsForSession) < Len(cards)

\* C2: from a freshly built session over a non-empty deck, whenever the
\* session is not finished the index lies in 0..length(sessionIds)-1 and
\* currentOrder[currentIndex] is the id of a card of the session.
C2_IndexWithinSession ==
    ~finished =>
        /\ currentIndex \in 0..(Len(sessionIds) - 1)
        /\ At(currentOrder, currentIndex) \in Range(sessionIds)

\* The last card of a shuffled session of several cards is showing.
C2_AtLastCard ==
    /\ ~finished
    /\ isShuffled
    /\ Len(sessionIds) >= 2
    /\ currentIndex = Len(sessionIds) - 1

\* The snapshot of the current state as it is read back from the file.
ExportedNow == JsonRoundTrip(buildStateObject(Session, cards))

\* C4: for every state the session transitions reach, exporting it and
\* importing the result at once against the same deck is accepted and
\* gives the same sessionIds, originalOrder, currentOrder, currentIndex,
\* incorrectIds, scope, isShuffled, frontFirst, font size (in pixels) and
\* finished flag.
C4_ExportImportRoundTrip ==
    LET snapshot == ExportedNow
        restored == restoreFromObject(Session, cards, snapshot)
    IN  /\ PathsMatch(snapshot, cards)
        /\ Ids(restored.cardsForSession) = sessionIds
        /\ restored.originalOrder = originalOrder
        /\ restored.currentOrder = currentOrder
        /\ restored.currentIndex = currentIndex
        /\ restored.incorrectIds = incorrectIds
        /\ restored.scope = scope
        /\ restored.isShuffled = isShuffled
        /\ restored.frontFirst = frontFirst
        /\ FontSizePx(restored) = FontSizePx(Session)
        /\ restored.finished = finished

\* A state in which no exported field has its initial value: a shuffled
\* session on a part of the deck, one wrong answer in, definition first,
\* font size 8.
C4_NothingAtDefault ==
    /\ scope # SCOPE_ALL
    /\ isShuffled
    /\ currentOrder # originalOrder
    /\ currentIndex > 0
    /\ incorrectIds # {}
    /\ ~frontFirst
    /\ fontSizeInput = <<"8">>

(***************************************************************************)
(* Properties of snapshots across uploads (SnapshotSpec)                   *)
(***************************************************************************)
\* importStateFromFile has just restored the session from state.json.
JustImported == alerted = [kind |-> "StateImported"]

\* C3: the state produced by restoring a snapshot whose paths match the
\* deck's has incorrectIds within sessionIds and, while Active, currentIndex
\* at most length(sessionIds)-1, also when the snapshot refers to rows that
\* are no longer in the deck.
C3_RestoredStateWithinSession ==
    JustImported =>
        /\ incorrectIds \subseteq Range(sessionIds)
        /\ Active => currentIndex <= Len(sessionIds) - 1

\* C5: from any reachable state with isShuffled = false, a state restored
\* from a snapshot included, ToggleShuffle twice leaves currentOrder equal
\* to originalOrder and isShuffled = false.
C5_ToggleShuffleTwice ==
    (MainView /\ ~isShuffled) =>
        \A r \in RandomDraws(Len(cardsForSession)) :
            LET twice == toggleShuffle(toggleShuffle(Session, r), r)
            IN  /\ twice.currentOrder = twice.originalOrder
                /\ ~twice.isShuffled

(***************************************************************************)
(* Properties of the deck builder (UploadSpec)                             *)
(***************************************************************************)
\* onUpload has been called for the batch.
Uploaded == batchLog.onUpload > 0

\* C6: the sequence of card ids handed to onUpload is the same for every
\* order in which the files of the selection appear, also when two paths
\* differ in case only (A.csv and a.csv).
C6_DeckIndependentOfSelectionOrder ==
    Uploaded =>
        \A sel \in UploadSelections :
            Range(FilterCsv(sel)) = Range(files) => Ids(BuildDeck(sel)) = Ids(cards)

\* p is smaller than q when case is ignored.
CaseInsensitiveLess(p, q) == CodeUnitCompare(ToLowerCase(p), ToLowerCase(q)) < 0

\* C7: in every deck handed to the study session, of two cards the one
\* whose path is smaller ignoring case comes first, and of two cards of the
\* same path the one with the smaller rowIndex comes first.
C7_CanonicalOrder ==
    \A i, j \in 1..Len(cards) :
        i < j =>
            /\ ~CaseInsensitiveLess(cards[j].path, cards[i].path)
            /\ cards[i].path = cards[j].path => cards[i].rowIndex < cards[j].rowIndex

\* The documents b/x.csv and a.csv have been uploaded: the rows of a.csv,
\* then the row of b/x.csv.
C7_FolderAfterFile ==
    /\ Uploaded
    /\ Paths(cards) = <<DocA.name, DocA.name, DocBX.webkitRelativePath>>
    /\ cards[1].rowIndex < cards[2].rowIndex

\* C8: for a fixed selection the deck handed to onUpload is the one the
\* selection determines, whatever the order in which the reads completed,
\* and onUpload is called only after every read has completed.
C8_DeckIndependentOfCompletionOrder ==
    Uploaded =>
        /\ SettledIndices(settled) = 1..Len(files)
        /\ \A k \in 1..Len(settled) : settled[k].ok
        /\ cards = BuildDeck(files)

\* A deck has been handed over after the read of the second file
\* completed before the read of the first.
C8_CompletedOutOfOrder ==
    /\ Uploaded
    /\ Len(files) = 2
    /\ settled[1].index = 2

\* A read of the batch has failed.
ReadFailed == \E k \in 1..Len(settled) : ~settled[k].ok

\* C9: if a read of a batch fails then, however the other reads complete,
\* onUpload is not called for the batch, exactly one error message is set
\* (the read failure), and the App's cards are unchanged.
C9_FailedReadAbortsBatch ==
    ReadFailed =>
        /\ batchLog.onUpload = 0
        /\ batchLog.errors = 1
        /\ error.kind = "ReadFailure"
        /\ cards = <<>>

\* One read of the batch fails and the other completes after it.
C9_FailureThenSuccess ==
    /\ Len(settled) = 2
    /\ ~settled[1].ok
    /\ settled[2].ok

\* Every read of the batch has completed, and none gave a card.
AllReadEmpty ==
    /\ files # <<>>
    /\ SettledIndices(settled) = 1..Len(files)
    /\ \A k \in 1..Len(settled) : settled[k].ok /\ settled[k].value = <<>>

\* C10: when every selected document parses to zero cards an error is
\* reported and onUpload is not called; onUpload never receives an empty
\* list and the study session is never over an empty deck.
C10_EmptyDeckIsAnError ==
    /\ AllReadEmpty => (error.kind = "EmptyDeck" /\ batchLog.onUpload = 0)
    /\ Uploaded => (Len(cards) > 0 /\ Len(cardsForSession) > 0)

\* The only .csv document of the selection has no valid row: the empty
\* result has been reported.
C10_EmptyReported == AllReadEmpty /\ error.kind = "EmptyDeck"

(***************************************************************************)
(* Properties of snapshot validation (ImportSpec)                          *)
(***************************************************************************)
\* The set of distinct paths a state.json lists.
SnapshotPathSet(parsed) == IF Has(parsed, "paths") THEN Range(parsed.paths) ELSE {}

\* The set of distinct paths of the cards of a deck.
DeckPathSet(cs) == Range(Paths(cs))

\* The deck the last batch of reads gives.
UploadedDeck == BuildDeck(files)

\* C11: validation accepts a snapshot exactly when the set of its paths
\* equals the set of the paths of the deck's cards, in whatever order
\* either side lists them, also for paths that differ in case only: an
\* accepted snapshot has the deck's path set, a rejected one has not.
C11_ValidationComparesPathSets ==
    /\ alerted.kind = "StateImported" =>
           SnapshotPathSet(stateFile) = DeckPathSet(cards)
    /\ alerted.kind = "ImportMismatch" =>
           SnapshotPathSet(stateFile) # DeckPathSet(cards)
    /\ initialStateForStudy # Null =>
           SnapshotPathSet(initialStateForStudy) = DeckPathSet(cards)
    /\ alerted.kind = "UploadMismatch" =>
           SnapshotPathSet(pendingState) # DeckPathSet(UploadedDeck)
    /\ error.kind = "PathMismatch" =>
           Range(expectedPaths) # DeckPathSet(UploadedDeck)

\* The step rejects a snapshot inside the session.
RejectedInSession == alerted'.kind = "ImportMismatch"

\* The step rejects an upload that does not match the pending snapshot.
RejectedOnUpload ==
    \/ alerted'.kind = "UploadMismatch"
    \/ error.kind # "PathMismatch" /\ error'.kind = "PathMismatch"

\* C12: when validation fails no state is altered: an import inside the
\* session leaves every field of the session as it was, and an upload that
\* does not match the pending snapshot leaves cards empty and the pending
\* snapshot and the expected paths in place.
C12_RejectionChangesNothing ==
    [][/\ RejectedInSession => UNCHANGED <<studyVars, appVars>>
       /\ RejectedOnUpload =>
              /\ cards' = <<>>
              /\ pendingState # Null
              /\ UNCHANGED <<pendingState, expectedPaths, studyVars>>]_vars

\* A snapshot of other files has been rejected in a session with an answer
\* given.
C12_RejectedAfterAnswer == alerted.kind = "ImportMismatch" /\ currentIndex > 0

\* C13: every rejection for a path mismatch names the missing paths (of
\* the snapshot, not of the deck) and the extra ones (of the deck, not of
\* the snapshot), on the route through the upload page and inside a
\* running session.
C13_RejectionNamesPaths ==
    /\ error.kind = "PathMismatch" =>
           /\ Range(error.missing) = Range(expectedPaths) \ DeckPathSet(UploadedDeck)
           /\ Range(error.extra) = DeckPathSet(UploadedDeck) \ Range(expectedPaths)
    /\ alerted.kind \in {"ImportMismatch", "UploadMismatch"} =>
           /\ Has(alerted, "missing")
           /\ Has(alerted, "extra")

\* The state.json is not JSON or lacks a required key.
Corrupt(parsed) ==
    parsed = Unparsable \/ \E f \in RequiredFields : ~Has(parsed, f)

\* C14: a state.json that is unparsable or lacks a required field is
\* rejected: it never becomes the pending snapshot and never restores a
\* session.
C14_CorruptSnapshotRejected ==
    (stateFile # Null /\ Corrupt(stateFile)) =>
        /\ pendingState = Null
        /\ initialStateForStudy = Null
        /\ alerted.kind # "StateImported"

(***************************************************************************)
(* The session transitions one by one (Spec)                               *)
(***************************************************************************)
\* t is what an answer is to give from s: wrong adds the current card's id
\* to incorrectIds, correct leaves them; at the last index the session
\* finishes with the index unchanged, otherwise the index goes up by one,
\* the session stays active and the card shows its first face.
AnswerGives(s, t, wrong) ==
    LET current == At(s.currentOrder, s.currentIndex)
    IN  /\ t.incorrectIds =
               IF wrong THEN s.incorrectIds \cup {current} ELSE s.incorrectIds
        /\ IF s.currentIndex = Len(s.cardsForSession) - 1
           THEN t.finished /\ t.currentIndex = s.currentIndex
           ELSE /\ t.currentIndex = s.currentIndex + 1
                /\ ~t.finished
                /\ ~t.showBack

\* C15: in an Active state an incorrect answer adds the id of the current
\* card to incorrectIds and a correct answer leaves incorrectIds unchanged;
\* then the session finishes with currentIndex unchanged if that was the
\* last index, and otherwise currentIndex goes up by exactly 1, the session
\* stays Active and the flip is reset.
C15_AnswerAdvancesOrFinishes ==
    MainView =>
        /\ AnswerGives(Session, markWrong(Session), TRUE)
        /\ AnswerGives(Session, markCorrect(Session), FALSE)

\* A session of several cards finished on its last index with a wrong
\* answer among the answers.
C15_FinishedWithWrongAnswer ==
    /\ finished
    /\ Len(sessionIds) >= 2
    /\ currentIndex = Len(sessionIds) - 1
    /\ incorrectIds # {}

\* C16: Undo at index 0 changes nothing; Undo at a positive index takes 1
\* from currentIndex, removes from incorrectIds the id then at currentIndex
\* in currentOrder and no other, and leaves the session Active.
C16_UndoStepsBack ==
    LET t == undoCard(Session)
    IN  IF currentIndex = 0 THEN t = Session
        ELSE /\ t.currentIndex = currentIndex - 1
             /\ t.incorrectIds = incorrectIds \ {At(currentOrder, currentIndex - 1)}
             /\ ~t.finished

\* Two cards are marked wrong and the third is showing: Undo is to clear
\* one mark and keep the other.
C16_TwoMarksBehind ==
    /\ MainView
    /\ currentIndex = 2
    /\ Cardinality(incorrectIds) = 2

\* The cards of the deck that are marked wrong, in deck order.
WrongCards == SelectSeq(cards, LAMBDA c : c.id \in incorrectIds)

\* C17: ReviewWrongOnly from a Finished state with wrong answers gives an
\* Active session of exactly the cards in incorrectIds in deck order, also
\* after a shuffled pass, at index 0, not shuffled, with incorrectIds empty;
\* with no wrong answer it changes nothing.
C17_ReviewIsWrongCardsInDeckOrder ==
    finished =>
        LET t == reviewWrongOnly(Session, cards)
        IN  IF incorrectIds = {} THEN t = Session
            ELSE /\ t.cardsForSession = WrongCards
                 /\ t.originalOrder = Ids(WrongCards)
                 /\ t.currentOrder = Ids(WrongCards)
                 /\ t.currentIndex = 0
                 /\ ~t.isShuffled
                 /\ t.incorrectIds = {}
                 /\ ~t.finished

\* A shuffled pass has finished with several wrong answers, given in an
\* order other than the deck's.
C17_ShuffledPassFinished ==
    /\ finished
    /\ isShuffled
    /\ Cardinality(incorrectIds) >= 2
    /\ SelectSeq(currentOrder, LAMBDA id : id \in incorrectIds) # Ids(WrongCards)

\* C18: RestartFullDeck from any session state gives the session over the
\* full deck in deck order with scope ALL, Active, at index 0, with
\* incorrectIds empty and not shuffled.
C18_RestartIsFullDeck ==
    LET t == restartFullDeck(Session, cards)
    IN  /\ t.cardsForSession = cards
        /\ t.originalOrder = Ids(cards)
        /\ t.currentOrder = Ids(cards)
        /\ t.scope = SCOPE_ALL
        /\ ~t.finished
        /\ t.currentIndex = 0
        /\ t.incorrectIds = {}
        /\ ~t.isShuffled

\* A shuffled review of wrong answers with a new wrong answer in it: a
\* part of the deck, from which Restart is to return to all of it.
C18_InShuffledReview ==
    /\ scope = SCOPE_ALL
    /\ Len(cardsForSession) < Len(cards)
    /\ isShuffled
    /\ incorrectIds # {}

\* The cards of a scope: all of them, those of the file, or those under
\* the folder.
CardsOfScope(cs, sc) ==
    SelectSeq(cs, LAMBDA c : \/ sc = SCOPE_ALL
                             \/ c.path = sc
                             \/ StartsWith(c.path, sc \o <<"/">>))

\* C19: a change of scope replaces the session wholesale: sessionIds,
\* originalOrder and currentOrder are the ids of the cards of the new scope
\* in deck order, currentIndex is 0, incorrectIds is empty, the session is
\* not shuffled and Active.
C19_ScopeChangeReplacesSession ==
    [][scope' # scope =>
           /\ cardsForSession' = CardsOfScope(cards, scope')
           /\ originalOrder' = Ids(CardsOfScope(cards, scope'))
           /\ currentOrder' = Ids(CardsOfScope(cards, scope'))
           /\ currentIndex' = 0
           /\ incorrectIds' = {}
           /\ ~isShuffled'
           /\ ~finished']_vars

\* The session is on a part of the deck chosen by scope, untouched.
C19_FreshScopedSession ==
    /\ scope # SCOPE_ALL
    /\ Len(cardsForSession) < Len(cards)
    /\ currentIndex = 0
    /\ incorrectIds = {}
    /\ ~isShuffled

(***************************************************************************)
(* Properties of the parsed cards (UploadSpec)                             *)
(***************************************************************************)
\* C20: every card emitted by parseCsv has a front and a back that are
\* non-empty after trimming: a row whose first or second field is empty or
\* whitespace-only once its quotes are stripped gives no card.
C20_CardsHaveContent ==
    \A k \in 1..Len(cards) :
        /\ Trim(cards[k].front) # <<>>
        /\ Trim(cards[k].back) # <<>>

\* The id the statement of C21 gives a card: path, two colons, rowIndex.
ColonId(c) == c.path \o <<":", ":">> \o DecimalString(c.rowIndex)

\* The id of the template literal: path, two underscores, rowIndex.
UnderscoreId(c) == c.path \o <<"_", "_">> \o DecimalString(c.rowIndex)

\* C21 as stated: the id of every card is path + "::" + rowIndex.
C21_IdIsPathColonsRow ==
    \A k \in 1..Len(cards) : cards[k].id = ColonId(cards[k])

\* C21 amended: the id of every card is path + "__" + rowIndex; the quoted
\* row "p q",z at row 2 of a.csv gives the card with id a.csv__2, front p q
\* and back z.
C21_IdIsPathUnderscoresRow ==
    /\ \A k \in 1..Len(cards) : cards[k].id = UnderscoreId(cards[k])
    /\ \A k \in 1..Len(cards) :
           cards[k].path = DocA.name /\ cards[k].rowIndex = 2 =>
               /\ cards[k].id = DocA.name \o <<"_", "_", "2">>
               /\ cards[k].front = <<"p", " ", "q">>
               /\ cards[k].back = <<"z">>

\* The deck holds the card of the quoted row of a.csv.
C21_QuotedRowInDeck ==
    \E k \in 1..Len(cards) : cards[k].path = DocA.name /\ cards[k].rowIndex = 2

(***************************************************************************)
(* Properties of the parser on one document (ParseSpec)                    *)
(***************************************************************************)
\* The text of the document being read.
DocText == files[1].text

\* The first two fields of a line, stripped; nothing for a line of fewer
\* than two fields.
RowOfLine(line) ==
    LET cells == splitCSVLine(line)
    IN  IF Len(cells) < 2 THEN <<>>
        ELSE <<stripOuterQuotes(cells[1]), stripOuterQuotes(cells[2])>>

\* Every card is the row of the line at position rowIndex of lines.
CardsAtPositions(lines) ==
    \A k \in 1..Len(cards) :
        /\ cards[k].rowIndex < Len(lines)
        /\ RowOfLine(lines[cards[k].rowIndex + 1]) = <<cards[k].front, cards[k].back>>

\* C22: the rowIndex of every card is the zero-based position of its line
\* among all the lines of the document text split on \n or \r\n, skipped
\* rows and blank lines at the start of the document counted.
C22_RowIndexIsLinePosition == CardsAtPositions(SplitLines(DocText))

\* The lines parseCsv hands to splitCSVLine.
DocLines == SplitLines(Trim(DocText))

\* A field written in quotes, its own quotes doubled.
QuoteField(f) ==
    <<"\"">> \o Flat([k \in 1..Len(f) |->
                         IF f[k] = "\"" THEN <<"\"", "\"">> ELSE <<f[k]>>])
             \o <<"\"">>

\* The fields written in quotes and joined with commas.
RECURSIVE JoinQuoted(_)
JoinQuoted(fields) ==
    IF Len(fields) = 1 THEN QuoteField(fields[1])
    ELSE QuoteField(fields[1]) \o <<",">> \o JoinQuoted(Tail(fields))

\* C23: for every line, writing the fields of splitCSVLine(line) in quotes
\* with their quotes doubled, joined with commas, gives a line that
\* splitCSVLine splits into the same fields.
C23_QuotingRoundTrip ==
    \A k \in 1..Len(DocLines) :
        LET fields == splitCSVLine(DocLines[k])
        IN  splitCSVLine(JoinQuoted(fields)) = fields

\* The document has been read and one of its fields holds a quote and a
\* comma.
C23_FieldWithQuoteAndComma ==
    /\ settled # <<>>
    /\ \E k \in 1..Len(DocLines) :
           LET fields == splitCSVLine(DocLines[k])
           IN  \E j \in 1..Len(fields) :
                   /\ Includes(fields[j], "\"")
                   /\ Includes(fields[j], ",")

\* A line read from left to right: whether the reader is in quote-mode, how
\* many commas it met outside quote-mode, and how many times it met two
\* consecutive quotes inside quote-mode (skip: the second of them is next).
QuoteScan(line) ==
    LET n == Len(line)
        st[i \in 0..n] ==
            IF i = 0
            THEN [inQuotes |-> FALSE, skip |-> FALSE, commas |-> 0, collapsed |-> 0]
            ELSE LET p == st[i - 1] IN
                 IF p.skip THEN [p EXCEPT !.skip = FALSE]
                 ELSE IF line[i] = "\""
                     THEN IF p.inQuotes /\ i < n /\ line[i + 1] = "\""
                          THEN [p EXCEPT !.skip = TRUE, !.collapsed = @ + 1]
                          ELSE [p EXCEPT !.inQuotes = ~@]
                 ELSE IF line[i] = "," /\ ~p.inQuotes
                     THEN [p EXCEPT !.commas = @ + 1]
                 ELSE p
    IN  st[n]

\* How many quotes the fields hold.
RECURSIVE QuotesIn(_)
QuotesIn(fields) ==
    IF fields = <<>> THEN 0
    ELSE Cardinality({ j \in 1..Len(Head(fields)) : Head(fields)[j] = "\"" })
         + QuotesIn(Tail(fields))

\* C29: for every line, the empty line and lines with unbalanced quotes
\* included, splitCSVLine returns a list of exactly one field more than
\* the commas outside quote-mode, and its fields hold a quote only for two
\* consecutive quotes met inside quote-mode.
C29_SplitIsTotalAndPermissive ==
    \A k \in 1..Len(DocLines) :
        LET fields == splitCSVLine(DocLines[k])
            scan == QuoteScan(DocLines[k])
        IN  /\ DOMAIN fields = 1..Len(fields)
            /\ Len(fields) = scan.commas + 1
            /\ QuotesIn(fields) = scan.collapsed

\* The document has been read and one of its lines ends in quote-mode
\* with a comma in it.
C29_UnbalancedQuoteRead ==
    /\ settled # <<>>
    /\ \E k \in 1..Len(DocLines) :
           /\ QuoteScan(DocLines[k]).inQuotes
           /\ Includes(DocLines[k], ",")

\* The cards that came from the line at position k of the lines read.
CardsOfLine(k) == { j \in 1..Len(cards) : cards[j].rowIndex = k - 1 }

\* C30: once the document is read, a line of fewer than two fields gives
\* no card, a line of two fields or more gives the card of its first two
\* fields alone (when both are non-empty), and no line gives more than one
\* card.
C30_OneCardFromFirstTwoFields ==
    settled # <<>> =>
        /\ Len(cards) <= Len(DocLines)
        /\ \A k \in 1..Len(DocLines) :
               LET cells == splitCSVLine(DocLines[k])
               IN  /\ Cardinality(CardsOfLine(k)) <= 1
                   /\ Len(cells) < 2 => CardsOfLine(k) = {}
                   /\ Len(cells) >= 2 =>
                          LET front == stripOuterQuotes(cells[1])
                              back == stripOuterQuotes(cells[2])
                          IN  /\ \A j \in CardsOfLine(k) :
                                     cards[j].front = front /\ cards[j].back = back
                              /\ front # <<>> /\ back # <<>> => CardsOfLine(k) # {}

\* A line of three fields has given a card.
C30_ThreeFieldsOneCard ==
    /\ settled # <<>>
    /\ \E k \in 1..Len(DocLines) :
           /\ Len(splitCSVLine(DocLines[k])) > 2
           /\ CardsOfLine(k) # {}

(***************************************************************************)
(* Properties of scope selection (ScopeSpec)                                *)
(***************************************************************************)
\* A key the dropdown of no deck offers.
UnrecognizedKey == <<"n", "o">>

\* The key names a folder of the deck: some path continues it after "/".
DerivedFolder(cs, key) ==
    \E k \in 1..Len(cs) : StartsWith(cs[k].path, key \o <<"/">>)

\* The key names a file of the deck.
DerivedFile(cs, key) == \E k \in 1..Len(cs) : cs[k].path = key

\* C24: the subset a change of scope computes is the full deck for ALL, the
\* cards whose path starts with key + "/" for a folder of the deck, the
\* cards whose path is key for a file of the deck, and empty for any other
\* key; its cards are in deck order.
C24_SelectScopeByKey ==
    \A key \in ScopeOptions(cards) \cup {UnrecognizedKey} :
        LET subset == onScopeChange(Session, cards, key).cardsForSession
        IN  subset =
                IF key = SCOPE_ALL THEN cards
                ELSE IF DerivedFolder(cards, key)
                    THEN SelectSeq(cards,
                             LAMBDA c : StartsWith(c.path, key \o <<"/">>))
                ELSE IF DerivedFile(cards, key)
                    THEN SelectSeq(cards, LAMBDA c : c.path = key)
                ELSE <<>>

\* The session is on the cards of a folder of the deck.
C24_FolderScopeChosen ==
    /\ DerivedFolder(cards, scope)
    /\ cardsForSession # <<>>
    /\ Len(cardsForSession) < Len(cards)

(***************************************************************************)
(* Properties of decoding a snapshot (ImportSpec)                          *)
(***************************************************************************)
\* The step restores the user's state.json inside the session.
DecodedInSession == alerted'.kind = "StateImported"

\* The step mounts StudyFlashcards with the snapshot imported on the upload
\* page.
DecodedAtMount == initialStateForStudy = Null /\ initialStateForStudy' # Null

\* The snapshot has the fields that have no default.
HasCore(parsed) ==
    {"sessionIds", "originalOrder", "currentOrder", "incorrectIds", "scope"}
        \subseteq DOMAIN parsed

\* The font size in pixels that the text of the font size input gives.
PixelsOf(input) == FontSizePx([fontSizeInput |-> input])

\* The session after the step is the decoding of parsed, its font size
\* read from the key fontKey.
DecodeGives(parsed, fontKey) ==
    /\ cardsForSession' =
           SelectSeq(cards', LAMBDA c : Includes(parsed.sessionIds, c.id))
    /\ originalOrder' = parsed.originalOrder
    /\ currentOrder' = parsed.currentOrder
    /\ incorrectIds' = parsed.incorrectIds
    /\ scope' = parsed.scope
    /\ currentIndex' = IF Has(parsed, "currentIndex") THEN parsed.currentIndex ELSE 0
    /\ isShuffled' = IF Has(parsed, "isShuffled") THEN parsed.isShuffled ELSE FALSE
    /\ finished' = IF Has(parsed, "finished") THEN parsed.finished ELSE FALSE
    /\ frontFirst' = IF Has(parsed, "frontFirst") THEN parsed.frontFirst ELSE TRUE
    /\ PixelsOf(fontSizeInput') =
           IF Has(parsed, fontKey) THEN PixelsOf(parsed[fontKey]) ELSE 30

\* Every step that decodes a snapshot gives its decoding, on both routes.
DecodesWithFontKey(fontKey) ==
    /\ DecodedInSession /\ HasCore(stateFile) => DecodeGives(stateFile, fontKey)
    /\ DecodedAtMount /\ HasCore(initialStateForStudy') =>
           DecodeGives(initialStateForStudy', fontKey)

\* C25 as stated: decoding a validated snapshot gives the deck's cards whose
\* id is in sessionIds, the snapshot's originalOrder, currentOrder,
\* currentIndex, incorrectIds, scope, isShuffled, frontFirst and finished,
\* the initial value for each absent optional field, and the font size
\* stored under the key fontSize.
C25_DecodeRestoresFontSize == [][DecodesWithFontKey("fontSize")]_vars

\* C25 amended: the same, with the font size stored under the key
\* fontSizeInput.
C25_DecodeRestoresFontSizeInput == [][DecodesWithFontKey("fontSizeInput")]_vars

\* A snapshot of the shuffled session without the key frontFirst has been
\* restored inside a session.
C25_RestoredWithDefault ==
    /\ alerted.kind = "StateImported"
    /\ stateFile = WithoutField(ShuffledSnapshot, "frontFirst")
    /\ isShuffled
    /\ frontFirst

(***************************************************************************)
(* Properties of the exported paths (ScopeSpec)                            *)
(***************************************************************************)
\* C26: whatever subset of the deck the session is on, the paths of the
\* snapshot exported now are the paths of all the cards of the deck, each
\* once and in sorted order, and the snapshot validates against the deck.
C26_SnapshotPathsAreDeckPaths ==
    LET snapshot == ExportedNow
        paths == snapshot.paths
    IN  /\ \A i, j \in 1..Len(paths) : i < j => paths[i] # paths[j]
        /\ \A i \in 1..(Len(paths) - 1) : localeCompare(paths[i], paths[i + 1]) <= 0
        /\ Range(paths) = DeckPathSet(cards)
        /\ PathsMatch(snapshot, cards)

\* The session reviews wrong answers that all come from one file of a deck
\* of several files.
C26_ReviewOfOneFile ==
    /\ scope = SCOPE_ALL
    /\ cardsForSession # <<>>
    /\ Cardinality(DeckPathSet(cardsForSession)) < Cardinality(DeckPathSet(cards))

(***************************************************************************)
(* Properties of the flip toggle (ImportSpec)                              *)
(***************************************************************************)
\* C27: after every step that changes currentIndex, an answer, an undo, a
\* shuffle, a change of scope, a review, a restart or the restoring of an
\* imported snapshot, showBack is false; a flip changes showBack only.
C27_FlipResetsWithIndex ==
    [][/\ currentIndex' # currentIndex => ~showBack'
       /\ Flip => UNCHANGED <<cardsForSession, originalOrder, currentOrder,
                              isShuffled, currentIndex, incorrectIds, finished,
                              frontFirst, fontSizeInput, scope>>]_vars

(***************************************************************************)
(* Termination of a pass                                                   *)
(***************************************************************************)
\* The session after the answers outcomes (TRUE: incorrect), in order.
RECURSIVE AfterAnswers(_, _)
AfterAnswers(s, outcomes) ==
    IF outcomes = <<>> THEN s
    ELSE AfterAnswers(IF Head(outcomes) THEN markWrong(s) ELSE markCorrect(s),
                      Tail(outcomes))

\* C28: from an Active state of a session of N cards, answers alone,
\* whatever their outcomes, finish the pass after exactly N - currentIndex
\* answers and leave it Active after every smaller number.
C28_PassEndsAfterRemainingAnswers ==
    MainView =>
        LET remaining == Len(cardsForSession) - currentIndex
        IN  /\ remaining >= 1
            /\ \A k \in 0..remaining :
                   \A outcomes \in [1..k -> BOOLEAN] :
                       AfterAnswers(Session, outcomes).finished = (k = remaining)

(***************************************************************************)
(* The order of the pass and what a pass keeps (PassSpec)                  *)
(***************************************************************************)
\* t differs from s in nothing but the order, the shuffle flag, the index
\* and the flip.
ToggleFrame(s, t) ==
    /\ t.cardsForSession = s.cardsForSession
    /\ t.originalOrder = s.originalOrder
    /\ t.incorrectIds = s.incorrectIds
    /\ t.scope = s.scope
    /\ t.frontFirst = s.frontFirst
    /\ t.fontSizeInput = s.fontSizeInput
    /\ t.finished = s.finished

\* C31: ToggleShuffle, from a shuffled as from an unshuffled session and
\* whatever the draws, sets currentIndex to 0 and leaves the session's
\* cards, originalOrder, incorrectIds, scope, frontFirst, the font size and
\* finished as they were: the wrong-marks made before the toggle are kept.
C31_ToggleShuffleFrame ==
    MainView =>
        \A r \in RandomDraws(Len(cardsForSession)) :
            LET t == toggleShuffle(Session, r)
            IN  /\ t.currentIndex = 0
                /\ ToggleFrame(Session, t)

\* The order was toggled after a wrong answer: a shuffled pass at its
\* first card with a mark of the pass before.
C31_ToggledAfterWrongMark ==
    /\ MainView
    /\ isShuffled
    /\ currentIndex = 0
    /\ incorrectIds # {}

\* No element occurs twice.
NoDuplicates(seq) ==
    \A j, k \in 1..Len(seq) : seq[j] = seq[k] => j = k

\* C32: in every session state reachable from a fresh session by Answer,
\* Undo, ToggleShuffle, ScopeChange, ReviewWrongOnly and RestartFullDeck,
\* currentOrder holds every id of the session's cards exactly once and no
\* other id, and originalOrder is the ids of the session's cards in the
\* order the deck has them.
C32_OrderIsPermutation ==
    /\ Len(currentOrder) = Len(cardsForSession)
    /\ NoDuplicates(currentOrder)
    /\ Range(currentOrder) = Range(sessionIds)
    /\ originalOrder = sessionIds
    /\ cardsForSession =
           SelectSeq(cards, LAMBDA c : c.id \in Range(sessionIds))

\* A shuffled pass that shows the cards in another order than the deck's,
\* over a proper subset of the deck.
C32_ShuffledOutOfDeckOrder ==
    /\ MainView
    /\ isShuffled
    /\ currentOrder # originalOrder
    /\ Len(cardsForSession) < Len(cards)

\* The ids at the positions of currentOrder below currentIndex: the cards
\* answered in the pass so far.
AnsweredIds == { At(currentOrder, k) : k \in 0..(currentIndex - 1) }

\* The count the main view shows under 'Know': answeredCount - wrongCount.
correctCount == currentIndex - Cardinality(incorrectIds)

\* C33: in every Active state reachable by the session transitions the
\* wrong-marked cards are no more than the answered cards
\* (|incorrectIds| <= currentIndex), so the 'Know' count is never negative,
\* and every id in incorrectIds stands in currentOrder below currentIndex.
C33_WrongMarksAreAnswered ==
    Active =>
        /\ Cardinality(incorrectIds) <= currentIndex
        /\ correctCount >= 0
        /\ incorrectIds \subseteq AnsweredIds

\* C34: when a session reaches Finished, incorrectIds is the set of cards
\* answered incorrect in the pass that just ended, whatever Undo and
\* ToggleShuffle transitions came before: the answer that ends the pass
\* leaves the session Finished with the last card in incorrectIds if that
\* answer was incorrect and not in incorrectIds if it was correct, and with
\* no card in incorrectIds that the pass has not shown before it.
C34_FinishedMarksAreOfThePass ==
    (MainView /\ currentIndex = Len(cardsForSession) - 1) =>
        LET last == At(currentOrder, currentIndex)
            right == markCorrect(Session)
            wrong == markWrong(Session)
        IN  /\ right.finished
            /\ last \notin right.incorrectIds
            /\ right.incorrectIds \subseteq AnsweredIds
            /\ wrong.finished
            /\ last \in wrong.incorrectIds
            /\ wrong.incorrectIds \subseteq AnsweredIds \cup {last}

\* Undo right after the answer that took s to t gives back the progress
\* of s: its index, its marks and the Active status.
UndoRestores(s, t) ==
    LET u == undoCard(t)
    IN  /\ u.currentIndex = s.currentIndex
        /\ u.incorrectIds = s.incorrectIds
        /\ ~u.finished

\* C35: in every reachable state whose current card is not in
\* incorrectIds, the last index included (where the answer finishes the
\* session), an answer of either outcome followed at once by Undo restores
\* currentIndex, incorrectIds and the Active status: Undo returns to the
\* card just answered and clears that card's mark only.
C35_UndoRevertsAnswer ==
    (MainView /\ At(currentOrder, currentIndex) \notin incorrectIds) =>
        /\ UndoRestores(Session, markWrong(Session))
        /\ UndoRestores(Session, markCorrect(Session))

(***************************************************************************)
(* The ids of a deck (UploadSpec)                                          *)
(***************************************************************************)
\* The positions of the deck at which a card has this id.
CardsWithId(id) == { k \in 1..Len(cards) : cards[k].id = id }

\* C36: the documents of an upload having pairwise distinct paths, no two
\* cards of the deck built from them have the same id, so that every id in
\* sessionIds, currentOrder and incorrectIds denotes exactly one card.
C36_IdsAreUnique ==
    /\ NoDuplicates(Ids(cards))
    /\ \A id \in Range(sessionIds) \cup Range(currentOrder) \cup incorrectIds :
           Cardinality(CardsWithId(id)) = 1

\* A deck built from two documents, each giving a card from its row 0.
C36_TwoDocumentsBothWithRowZero ==
    /\ ~UploadPage
    /\ Cardinality({ c.path : c \in Range(cards) }) = 2
    /\ Cardinality({ k \in 1..Len(cards) : cards[k].rowIndex = 0 }) = 2
    /\ Len(currentOrder) = Len(cards)

(***************************************************************************)
(* The cards of a session (PassSpec)                                       *)
(***************************************************************************)
\* C37: without a snapshot import the session is never empty: in every
\* state reached from an upload by ScopeChange to ALL or to a key derived
\* from the deck's folders and files, Answer, Undo, ToggleShuffle,
\* ReviewWrongOnly and RestartFullDeck the session has at least one card,
\* every key on offer selects at least one card, and the view 'No cards
\* found for this scope' is not showing.
C37_SessionNeverEmpty ==
    ~UploadPage =>
        /\ Len(cardsForSession) >= 1
        /\ ~NoCardsView
        /\ \A key \in ScopeOptions(cards) : Len(SelectScope(cards, key)) >= 1

\* A shuffled pass over the cards of a folder of a deck that has cards
\* outside the folder.
C37_ShuffledFolderSession ==
    /\ MainView
    /\ Includes(uniqueFolders(cards), scope)
    /\ isShuffled
    /\ Len(cardsForSession) < Len(cards)

(***************************************************************************)
(* Import before upload (ImportSpec)                                       *)
(***************************************************************************)
\* The step fulfils the batch of reads of an upload made while a snapshot
\* is pending, and the cards read have exactly the snapshot's paths.
MatchingUploadCompletes ==
    /\ UploadPage
    /\ pendingState # Null
    /\ BatchInFlight
    /\ PromiseState(files, settled') = "fulfilled"
    /\ DeckPathSet(UploadedDeck) = SnapshotPathSet(pendingState)

\* The step mounts the session on the uploaded deck in the decoding of the
\* pending snapshot and clears the pending snapshot and its path list.
SettlesInSnapshotState ==
    /\ cards' = UploadedDeck
    /\ SetSession(restoreFromObject(CardsEffect(InitialSession(UploadedDeck),
                                                UploadedDeck),
                                    UploadedDeck, pendingState))
    /\ pendingState' = Null
    /\ expectedPaths' = <<>>

\* The step is taken inside a mounted session and leaves it mounted.
StaysInSession == ~UploadPage /\ cards' # <<>>

====
